---- MODULE Spec2Model ----
(***************************************************************************)
(* The CloudWatch Embedded Metric Format encoder of                        *)
(* aws/cloudwatch/structured_metric.go: an EmbeddedMetric (a property bag  *)
(* and an ordered list of MetricDirectives), its builder calls, its JSON   *)
(* encoding and its publish path, with the streams the publish path        *)
(* writes to.                                                              *)
(*                                                                         *)
(* Go strings whose characters matter (environment entries and the values  *)
(* taken from them) are sequences of tokens; "=" is the token at which     *)
(* strings.Split cuts.  Map keys (property, metric and dimension names)    *)
(* are TLA+ strings.                                                       *)
(***************************************************************************)
EXTENDS Integers, Sequences, FiniteSets, TLC

VARIABLES
    environ,    \* os.Environ() at process start: a list of "NAME=value" entries
    envMap,     \* the package variable envMap, as init() leaves it
    em,         \* the EmbeddedMetric: [metrics, properties]
    written,    \* every write call made so far, in order: [stream, ok, data]
    now,        \* the clock time.Now() reads, in milliseconds
    calls,      \* number of API calls made on the instance
    ghostBag,   \* history: key -> value of the most recent property write
    ghostNs,    \* history: namespaces given to NewMetricDirective, in call order
    last        \* history: the most recent call, when it was a publish

vars == <<environ, envMap, em, written, now, calls, ghostBag, ghostNs, last>>

(***************************************************************************)
(* Bounds of the model.                                                    *)
(***************************************************************************)
MaxCalls == 4
MaxTime == 1
MaxWide == 10
MaxPermuted == 2

(***************************************************************************)
(* Program constants.                                                      *)
(***************************************************************************)
MaxDimensions == 9

EnvLogGroup == "AWS_LAMBDA_LOG_GROUP_NAME"
EnvLogStream == "AWS_LAMBDA_LOG_STREAM_NAME"
KeyLogGroup == "log_group_name"
KeyLogStream == "log_steam_name"
KeyAWS == "_aws"

UnitMilliseconds == "Milliseconds"
UnitCount == "Count"
UnitNone == "None"

Stdout == "stdout"
Writer == "writer"
Streams == {Stdout, Writer}

(***************************************************************************)
(* Values.  A Go interface{} value is [kind, val]; a value of kind "chan"  *)
(* stands for any value encoding/json has no encoding for.                 *)
(***************************************************************************)
Str(s) == [kind |-> "string", val |-> s]
Num(n) == [kind |-> "number", val |-> n]
Chan == [kind |-> "chan", val |-> 0]

\* json.Marshal of one value: only the unsupported kinds fail.
Unsupported(v) == v.kind = "chan"

(***************************************************************************)
(* Go maps.  A map that may be nil is [isNil, entries]; entries is a       *)
(* function from the keys present.                                         *)
(***************************************************************************)
EmptyEntries == <<>>
NilMap == [isNil |-> TRUE, entries |-> EmptyEntries]
MakeMap == [isNil |-> FALSE, entries |-> EmptyEntries]
MapOf(f) == [isNil |-> FALSE, entries |-> f]

\* m[k] = v
Put(m, k, v) == [x \in (DOMAIN m) \cup {k} |-> IF x = k THEN v ELSE m[x]]

\* for k, v := range b { a[k] = v }: the keys of b are distinct, so the
\* assignments commute and the iteration order does not show in the result.
Merge(a, b) == [x \in (DOMAIN a) \cup (DOMAIN b) |-> IF x \in DOMAIN b THEN b[x] ELSE a[x]]

\* m[k] of a map whose missing keys read as the zero value
Lookup(m, k, zero) == IF k \in DOMAIN m THEN m[k] ELSE zero

(***************************************************************************)
(* init(): the environment snapshot.                                       *)
(***************************************************************************)
RECURSIVE Split(_, _)
\* strings.Split(s, sep) over token sequences
Split(s, sep) ==
    IF \A i \in 1..Len(s) : s[i] # sep
    THEN <<s>>
    ELSE LET i == CHOOSE j \in 1..Len(s) : s[j] = sep /\ \A h \in 1..(j-1) : s[h] # sep
         IN  <<SubSeq(s, 1, i-1)>> \o Split(SubSeq(s, i+1, Len(s)), sep)

RECURSIVE BuildEnvMap(_, _)
\* the loop of init() over envVars, from entry i on, starting from map m
BuildEnvMap(envVars, m) ==
    IF envVars = <<>> THEN m
    ELSE LET parts == Split(Head(envVars), "=")
         IN  BuildEnvMap(Tail(envVars),
                         IF Len(parts) = 2 THEN Put(m, parts[1], parts[2]) ELSE m)

InitEnvMap(envVars) == BuildEnvMap(envVars, EmptyEntries)

(***************************************************************************)
(* The builder.                                                            *)
(***************************************************************************)
\* the zero value EmbeddedMetric{}: no directive, a nil property map
ZeroEmbeddedMetric == [metrics |-> <<>>, properties |-> NilMap]

NewEmbeddedMetric == [metrics |-> <<>>, properties |-> MakeMap]

NewEmbeddedMetricWithProperties(props) ==
    [metrics |-> <<>>, properties |-> IF props.isNil THEN MakeMap ELSE props]

\* An *EmbeddedMetric is an address of the heap, a function from addresses to
\* instances.  The caller's instance is at This.
This == "em"

Heap(e) == [a \in {This} |-> e]

KeepFirstWithProperty(heap, p, key, value) ==
    [heap |-> [heap EXCEPT ![p].properties =
                  MapOf(IF key \in DOMAIN heap[p].properties.entries
                        THEN heap[p].properties.entries
                        ELSE Put(heap[p].properties.entries, key, value))],
     ptr  |-> p]

\* em.WithProperty(key, value), em being the address p: the heap the call
\* leaves and the address it returns (return em)
WithProperty(heap, p, key, value) ==
    [heap |-> [heap EXCEPT ![p].properties =
                  MapOf(Put(heap[p].properties.entries, key, value))],
     ptr  |-> p]

PrependDirective(list, md) == <<md>> \o list

\* em.metrics = append(em.metrics, md)
AppendDirective(list, md) == Append(list, md)

NewMetricDirective(e, namespace, dimensions) ==
    LET md == [namespace  |-> namespace,
               Dimensions |-> IF dimensions.isNil THEN EmptyEntries
                                                  ELSE dimensions.entries,
               Metrics    |-> EmptyEntries]
    IN  [e EXCEPT !.metrics = AppendDirective(e.metrics, md)]

\* md.Metrics[name] = MetricValue{...} through the handle NewMetricDirective returned
SetMetric(e, i, name, mv) ==
    [e EXCEPT !.metrics[i].Metrics = Put(e.metrics[i].Metrics, name, mv)]

\* md.Dimensions[name] = value through the handle
SetDimension(e, i, name, value) ==
    [e EXCEPT !.metrics[i].Dimensions = Put(e.metrics[i].Dimensions, name, value)]

(***************************************************************************)
(* Iteration order.  The order in which range visits a map is unspecified  *)
(* and varies from one loop to the next: RangeOrders(S) is every order of  *)
(* the keys S, whatever their number.                                      *)
(*                                                                         *)
(* A loop over a map of at most MaxPermuted keys is resolved: a publish    *)
(* has one successor for every member of RangeOrders(S), and the array the *)
(* loop appends to holds its entries in the order visited.  A larger map   *)
(* has too many orders for one successor each (3628800 for ten keys); its  *)
(* loop is left open: the array it fills is marked open, lists its entries *)
(* by sorted key, and stands for every array Readings gives, one for each  *)
(* member of RangeOrders(S).  No order is picked and none is left out, and *)
(* the open arrays of one record or of two records are read independently  *)
(* of one another, as the loops that fill them choose independently.       *)
(* MaxPermuted changes how the orders are represented, not which are       *)
(* allowed.                                                                *)
(***************************************************************************)
\* every name of the model, in the byte order encoding/json sorts map keys by
KeyOrder ==
    <<"_aws", "d01", "d02", "d03", "d04", "d05", "d06", "d07", "d08", "d09",
      "d10", "d11", "d12", "k1", "k2", "log_group_name", "log_steam_name">>

SortedKeys(S) == SelectSeq(KeyOrder, LAMBDA k : k \in S)

\* for k := range m: the keys of m, each once, in any order
RangeOrders(S) ==
    {f \in [1..Cardinality(S) -> S] : \A i, j \in 1..Cardinality(S) : f[i] = f[j] => i = j}

\* the run of one loop over the keys S: resolved to a member of RangeOrders(S),
\* or open, standing for every member of RangeOrders(S)
LoopOrders(S) ==
    IF Cardinality(S) <= MaxPermuted
    THEN {[open |-> FALSE, visit |-> q] : q \in RangeOrders(S)}
    ELSE {[open |-> TRUE, visit |-> SortedKeys(S)]}

\* the arrays an array of a record stands for: itself when its loop was
\* resolved, every order of its entries when the loop was left open
Readings(array) ==
    IF ~array.open THEN {array.items}
    ELSE {[j \in 1..Len(array.items) |-> array.items[p[j]]] :
             p \in RangeOrders(1..Len(array.items))}

RECURSIVE DirectiveOrders(_)
\* one run of the Metrics loop (m) and of the Dimensions loop (d) for every
\* directive
DirectiveOrders(list) ==
    IF list = <<>> THEN {<<>>}
    ELSE {<<[m |-> mo, d |-> do]>> \o rest :
            mo \in LoopOrders(DOMAIN Head(list).Metrics),
            do \in LoopOrders(DOMAIN Head(list).Dimensions),
            rest \in DirectiveOrders(Tail(list))}

(***************************************************************************)
(* MarshalJSON.                                                            *)
(***************************************************************************)
\* metricsElem.Metrics = append(metricsElem.Metrics, metricsDefinition{...})
MetricsArray(d, order) ==
    [open  |-> order.open,
     items |-> [j \in 1..Len(order.visit) |->
                   [Name |-> order.visit[j], Unit |-> d.Metrics[order.visit[j]].Unit]]]

OneGroupOfAll(order) ==
    [open  |-> order.open,
     items |-> IF order.visit = <<>> THEN <<>> ELSE <<order.visit>>]

\* metricsElem.Dimensions = append(metricsElem.Dimensions, []string{eachKey})
DimensionGroups(order) ==
    [open  |-> order.open,
     items |-> [j \in 1..Len(order.visit) |-> <<order.visit[j]>>]]

MetricsElem(d, ord) ==
    [Namespace  |-> d.namespace,
     Dimensions |-> DimensionGroups(ord.d),
     Metrics    |-> MetricsArray(d, ord.m)]

MetricValues(d) == [k \in DOMAIN d.Metrics |-> d.Metrics[k].Value]
DimensionValuesOf(d) == [k \in DOMAIN d.Dimensions |-> Str(d.Dimensions[k])]

DimensionsThenMetrics(jsonMap, d) ==
    Merge(Merge(jsonMap, DimensionValuesOf(d)), MetricValues(d))

\* one pass of the directive loop over jsonMap: its metrics, then its dimensions
FlattenDirective(jsonMap, d) ==
    Merge(Merge(jsonMap, MetricValues(d)), DimensionValuesOf(d))

RECURSIVE FlattenDirectives(_, _)
FlattenDirectives(jsonMap, list) ==
    IF list = <<>> THEN jsonMap
    ELSE FlattenDirectives(FlattenDirective(jsonMap, Head(list)), Tail(list))

ReservedKeys(env) ==
    [k \in {KeyLogGroup, KeyLogStream} |->
        IF k = KeyLogGroup THEN Str(Lookup(env, <<EnvLogGroup>>, <<>>))
                           ELSE Str(Lookup(env, <<EnvLogStream>>, <<>>))]

\* json.Marshal of a map[string]interface{}: the keys sorted, each once; an
\* error when a value has no encoding
JSONMarshalMap(jsonMap) ==
    LET keys == SortedKeys(DOMAIN jsonMap)
    IN  IF \E k \in DOMAIN jsonMap : Unsupported(jsonMap[k])
        THEN [err |-> TRUE, object |-> <<>>]
        ELSE [err |-> FALSE,
              object |-> [i \in 1..Len(keys) |-> [key |-> keys[i], value |-> jsonMap[keys[i]]]]]

MarshalJSON(e, env, t, orders) ==
    LET withProperties == Merge(ReservedKeys(env), e.properties.entries)
        flat == FlattenDirectives(withProperties, e.metrics)
        cwMetrics ==
            [Timestamp |-> t,
             CloudWatchMetrics |->
                [i \in 1..Len(e.metrics) |-> MetricsElem(e.metrics[i], orders[i])]]
    IN  JSONMarshalMap(Put(flat, KeyAWS, [kind |-> "object", val |-> cwMetrics]))

(***************************************************************************)
(* PublishToSink.  A write call is [stream, ok, data]: ok is what the      *)
(* stream answered; fmt.Printf writes to the process's standard output and *)
(* its result is discarded.                                                *)
(***************************************************************************)
WriteCall(stream, ok, data) == [stream |-> stream, ok |-> ok, data |-> data]

Printf(data) == WriteCall(Stdout, TRUE, data)

AtLeastMaxDimensions(d) == Cardinality(DOMAIN d.Dimensions) >= MaxDimensions

\* if len(eachDirective.Dimensions) > 9
Oversized(d) == Cardinality(DOMAIN d.Dimensions) > MaxDimensions

\* the precondition loop: one Printf per oversized directive, in list order
Preconditions(list) ==
    LET big == SelectSeq(list, Oversized)
    IN  [i \in 1..Len(big) |->
            Printf([kind |-> "warning", count |-> Cardinality(DOMAIN big[i].Dimensions)])]

RECURSIVE AddProperties(_, _, _, _)
\* for eachKey, eachValue := range additionalProperties { em = em.WithProperty(...) }
\* with the keys visited in the order visit and em the address p on entry: the
\* heap the loop leaves, the address em holds after it, and the addresses the
\* calls returned; each call is made on the address the call before returned
AddProperties(heap, p, additional, visit) ==
    IF visit = <<>> THEN [heap |-> heap, ptr |-> p, returned |-> <<>>]
    ELSE LET r == WithProperty(heap, p, Head(visit), additional[Head(visit)])
             rest == AddProperties(r.heap, r.ptr, additional, Tail(visit))
         IN  [heap |-> rest.heap, ptr |-> rest.ptr, returned |-> <<r.ptr>> \o rest.returned]

\* what the one io.WriteString call of a publish is given
SinkPayload(enc) ==
    IF enc.err THEN <<[kind |-> "encode_error"]>>
    ELSE <<[kind |-> "record", object |-> enc.object]>>

ClearDirectives(e) == [e EXCEPT !.metrics = <<>>]

\* the instance a publish leaves behind, e being the caller's instance after
\* the additionalProperties loop
AfterPublish(e) == e

\* the call as a whole, on the instance e at This: the instance it leaves at
\* This, the addresses the WithProperty calls of its loop returned, and the
\* write calls it makes.  json.Marshal(em) encodes the instance at the address
\* em holds after the loop.
PublishToSink(e, env, additional, visit, sink, sinkOK, t, orders) ==
    LET warned == Preconditions(e.metrics)
        merged == AddProperties(Heap(e), This, additional.entries, visit)
        enc == MarshalJSON(merged.heap[merged.ptr], env, t, orders)
        payload == SinkPayload(enc)
        sinkWrites == [i \in 1..Len(payload) |-> WriteCall(sink, sinkOK, payload[i])]
        report == IF sinkOK THEN <<>> ELSE <<Printf([kind |-> "write_error"])>>
    IN  [em |-> AfterPublish(merged.heap[This]), returned |-> merged.returned,
         writes |-> warned \o sinkWrites \o report]

(***************************************************************************)
(* Inputs.  A specification draws the arguments of the calls from a        *)
(* record of finite sets: properties ([key, value]), directives            *)
(* ([namespace, dimensions]), metrics ([name, mv]), dimensions             *)
(* ([name, value]), additional (maps), sinkOK (answers of the sink), ticks  *)
(* (milliseconds the clock may have advanced by when a publish reads it).  *)
(***************************************************************************)
DimNames ==
    <<"d01", "d02", "d03", "d04", "d05", "d06", "d07", "d08", "d09", "d10", "d11", "d12">>

WideDimensions(n) == [k \in {DimNames[i] : i \in 1..n} |-> <<"prod">>]

KV(k, v) == [key |-> k, value |-> v]
Directive(ns, dims) == [namespace |-> ns, dimensions |-> dims]
Metric(name, value, unit) == [name |-> name, mv |-> [Value |-> value, Unit |-> unit]]
Dimension(name, value) == [name |-> name, value |-> value]

OneKey(k, v) == MapOf([x \in {k} |-> v])

\* both variables set
PlainEnviron ==
    << <<"HOME", "=", "/root">>,
       <<EnvLogGroup, "=", "/aws/lambda/fn">>,
       <<EnvLogStream, "=", "2020/01/31/abc">> >>

(***************************************************************************)
(* The state machine.                                                      *)
(***************************************************************************)
NoPublish == [op |-> "none"]

InitWith(environs, instances) ==
    /\ environ \in environs
    /\ envMap = InitEnvMap(environ)
    /\ em \in instances
    /\ written = <<>>
    /\ now = 0
    /\ calls = 0
    /\ ghostBag = em.properties.entries
    /\ ghostNs = <<>>
    /\ last = NoPublish

CallWithProperty(in) ==
    /\ calls < MaxCalls
    /\ \E p \in in.properties :
          LET r == WithProperty(Heap(em), This, p.key, p.value)
          IN  /\ em' = r.heap[This]
              /\ last' = [op |-> "WithProperty", returned |-> <<r.ptr>>]
              /\ ghostBag' = [k \in (DOMAIN ghostBag) \cup {p.key} |->
                                  IF k = p.key THEN p.value ELSE ghostBag[k]]
    /\ calls' = calls + 1
    /\ UNCHANGED <<environ, envMap, written, now, ghostNs>>

CallNewMetricDirective(in) ==
    /\ calls < MaxCalls
    /\ \E d \in in.directives :
          /\ em' = NewMetricDirective(em, d.namespace, d.dimensions)
          /\ ghostNs' = Append(ghostNs, d.namespace)
    /\ calls' = calls + 1
    /\ last' = NoPublish
    /\ UNCHANGED <<environ, envMap, written, now, ghostBag>>

CallSetMetric(in) ==
    /\ calls < MaxCalls
    /\ \E i \in 1..Len(em.metrics), m \in in.metrics :
          em' = SetMetric(em, i, m.name, m.mv)
    /\ calls' = calls + 1
    /\ last' = NoPublish
    /\ UNCHANGED <<environ, envMap, written, now, ghostBag, ghostNs>>

CallSetDimension(in) ==
    /\ calls < MaxCalls
    /\ \E i \in 1..Len(em.metrics), d \in in.dimensions :
          em' = SetDimension(em, i, d.name, d.value)
    /\ calls' = calls + 1
    /\ last' = NoPublish
    /\ UNCHANGED <<environ, envMap, written, now, ghostBag, ghostNs>>

\* one PublishToSink call with the given sink
Publishing(in, sink) ==
    /\ calls < MaxCalls
    /\ \E additional \in in.additional, sinkOK \in in.sinkOK,
          t \in {now + d : d \in in.ticks} \cap (0..MaxTime),
          orders \in DirectiveOrders(em.metrics) :
          \E visit \in RangeOrders(DOMAIN additional.entries) :
          LET r == PublishToSink(em, envMap, additional, visit, sink, sinkOK, t, orders)
          IN  /\ em' = r.em
              /\ written' = written \o r.writes
              /\ now' = t
              /\ ghostBag' = Merge(ghostBag, additional.entries)
              /\ last' = [op |-> "PublishToSink", sink |-> sink, sinkOK |-> sinkOK,
                          additional |-> additional, returned |-> r.returned,
                          from |-> Len(written),
                          before |-> em, afterPublish |-> last.op = "PublishToSink"]
    /\ calls' = calls + 1
    /\ UNCHANGED <<environ, envMap, ghostNs>>

CallPublishToSink(in) == Publishing(in, Writer)

\* Publish: PublishToSink with os.Stdout
CallPublish(in) == Publishing(in, Stdout)

(***************************************************************************)
(* Spec: the builder and the encoder, publishing to a writer that accepts  *)
(* every write.                                                            *)
(***************************************************************************)
EncodeInputs ==
    [properties |-> {KV("k1", Str(<<"v1">>)), KV("k1", Str(<<"v2">>)), KV("k2", Chan)},
     directives |-> {Directive("MyService", OneKey("k1", <<"prod">>)),
                     Directive("Other", NilMap),
                     Directive("Other", MapOf([k \in {"k1", "k2"} |-> <<"dev">>]))},
     metrics    |-> {Metric("k1", Num(42), UnitMilliseconds),
                     Metric("k1", Num(7), UnitCount),
                     Metric("k2", Num(7), UnitCount)},
     dimensions |-> {Dimension("k2", <<"dev">>)},
     additional |-> {NilMap,
                     MapOf([k \in {"k1", "k2"} |->
                               IF k = "k1" THEN Num(7) ELSE Str(<<"v1">>)])},
     sinkOK     |-> {TRUE},
     ticks      |-> {0, 1}]

Init ==
    InitWith({PlainEnviron},
             {ZeroEmbeddedMetric, NewEmbeddedMetric,
              NewEmbeddedMetricWithProperties(NilMap),
              NewEmbeddedMetricWithProperties(OneKey("k1", Str(<<"v1">>)))})

Next ==
    \/ CallWithProperty(EncodeInputs)
    \/ CallNewMetricDirective(EncodeInputs)
    \/ CallSetMetric(EncodeInputs)
    \/ CallSetDimension(EncodeInputs)
    \/ CallPublishToSink(EncodeInputs)

Spec == Init /\ [][Next]_vars

(***************************************************************************)
(* SpecStreams: the publish path, to a caller's writer and to standard     *)
(* output, with sinks that may refuse the write, directives at and above   *)
(* the dimension limit, and values without a JSON encoding.                *)
(***************************************************************************)
StreamInputs ==
    [properties |-> {KV("k1", Str(<<"v1">>)), KV("k2", Chan)},
     directives |-> {Directive("MyService", MapOf(WideDimensions(n))) :
                        n \in {MaxDimensions, MaxWide}}
                    \cup {Directive("Other", NilMap)},
     metrics    |-> {Metric("k1", Num(42), UnitMilliseconds), Metric("k1", Chan, UnitNone)},
     dimensions |-> {Dimension("k1", <<"dev">>)},
     additional |-> {NilMap},
     sinkOK     |-> BOOLEAN,
     ticks      |-> {0}]

InitStreams == InitWith({PlainEnviron}, {NewEmbeddedMetric})

NextStreams ==
    \/ CallWithProperty(StreamInputs)
    \/ CallNewMetricDirective(StreamInputs)
    \/ CallSetMetric(StreamInputs)
    \/ CallSetDimension(StreamInputs)
    \/ CallPublishToSink(StreamInputs)
    \/ CallPublish(StreamInputs)

SpecStreams == InitStreams /\ [][NextStreams]_vars

(***************************************************************************)
(* SpecEnv: the environment snapshot, over process environments in which   *)
(* the two variables are unset, set, or set with a group name holding a    *)
(* "=".                                                                    *)
(***************************************************************************)
EnvironInputs ==
    { << <<"HOME", "=", "/root">> >>,
      PlainEnviron,
      << <<EnvLogGroup, "=", "team", "=", "a">>,
         <<EnvLogStream, "=", "2020/01/31/abc">> >> }

EnvInputs ==
    [properties |-> {KV("k1", Str(<<"v1">>)), KV(KeyLogGroup, Str(<<"v1">>))},
     directives |-> {Directive("MyService", NilMap),
                     Directive("Other", OneKey(KeyLogStream, <<"prod">>))},
     metrics    |-> {Metric("k1", Num(42), UnitMilliseconds),
                     Metric(KeyLogGroup, Num(7), UnitCount)},
     dimensions |-> {Dimension("k2", <<"dev">>)},
     additional |-> {NilMap, OneKey("k1", Num(7))},
     sinkOK     |-> {TRUE},
     ticks      |-> {0}]

InitEnv == InitWith(EnvironInputs, {ZeroEmbeddedMetric, NewEmbeddedMetric})

NextEnv ==
    \/ CallWithProperty(EnvInputs)
    \/ CallNewMetricDirective(EnvInputs)
    \/ CallSetMetric(EnvInputs)
    \/ CallSetDimension(EnvInputs)
    \/ CallPublishToSink(EnvInputs)
    \/ CallPublish(EnvInputs)

SpecEnv == InitEnv /\ [][NextEnv]_vars

(***************************************************************************)
(* Reading what was written.                                               *)
(***************************************************************************)
Published == last.op = "PublishToSink"

IsPayload(c) == c.data.kind \in {"record", "encode_error"}
IsDiagnostic(c) == c.data.kind \in {"warning", "write_error"}

\* the write calls of the most recent call, a publish
LastWrites == SubSeq(written, last.from + 1, Len(written))

\* the payload handed to the sink by the most recent publish
LastPayloads == SelectSeq(LastWrites, IsPayload)

\* the most recent publish wrote a structured record
Encoded == Published /\ Len(LastPayloads) = 1 /\ LastPayloads[1].data.kind = "record"

LastObject == LastPayloads[1].data.object

Occurrences(object, key) == Cardinality({i \in 1..Len(object) : object[i].key = key})

Member(object, key) == object[CHOOSE i \in 1..Len(object) : object[i].key = key].value

HasKey(object, key) == \E i \in 1..Len(object) : object[i].key = key

CloudWatchMetricsOf(object) == Member(object, KeyAWS).val.CloudWatchMetrics

Range(q) == {q[i] : i \in 1..Len(q)}

\* the names some directive of e uses for a metric or a dimension
DirectiveKeys(e) ==
    UNION {(DOMAIN e.metrics[i].Metrics) \cup (DOMAIN e.metrics[i].Dimensions) :
              i \in 1..Len(e.metrics)}

(***************************************************************************)
(* C1.  For every directive holding N metrics and M dimensions at encode   *)
(* time, its entry of _aws.CloudWatchMetrics carries the directive's       *)
(* namespace, exactly N Metrics entries whose (Name, Unit) pairs are the   *)
(* directive's metric names with their units, and exactly M Dimensions     *)
(* groups, each of one element, whose elements are exactly the directive's *)
(* M dimension names.                                                      *)
(***************************************************************************)
C1_DirectiveEntry ==
    Encoded =>
        LET cw == CloudWatchMetricsOf(LastObject)
        IN  /\ Len(cw) = Len(em.metrics)
            /\ \A i \in 1..Len(em.metrics) :
                  LET d == em.metrics[i]
                      elem == cw[i]
                  IN  /\ elem.Namespace = d.namespace
                      /\ Len(elem.Metrics.items) = Cardinality(DOMAIN d.Metrics)
                      /\ {<<x.Name, x.Unit>> : x \in Range(elem.Metrics.items)}
                            = {<<k, d.Metrics[k].Unit>> : k \in DOMAIN d.Metrics}
                      /\ Len(elem.Dimensions.items) = Cardinality(DOMAIN d.Dimensions)
                      /\ \A j \in 1..Len(elem.Dimensions.items) :
                            Len(elem.Dimensions.items[j]) = 1
                      /\ {g[1] : g \in Range(elem.Dimensions.items)} = DOMAIN d.Dimensions

\* a record was written for a directive holding two metrics and two dimensions
C1_Witness ==
    /\ Encoded
    /\ \E i \in 1..Len(em.metrics) :
          /\ Cardinality(DOMAIN em.metrics[i].Metrics) = 2
          /\ Cardinality(DOMAIN em.metrics[i].Dimensions) = 2
          /\ Len(CloudWatchMetricsOf(LastObject)[i].Dimensions.items) = 2

(***************************************************************************)
(* C2.  The writers of the top-level keys, in the order in which a value   *)
(* written later replaces one written earlier.                             *)
(***************************************************************************)
RECURSIVE PerDirectiveWriters(_)
\* directive by directive: its metrics, then its dimensions
PerDirectiveWriters(list) ==
    IF list = <<>> THEN <<>>
    ELSE <<MetricValues(Head(list)), DimensionValuesOf(Head(list))>>
            \o PerDirectiveWriters(Tail(list))

\* the metrics of every directive, then the dimensions of every directive
MetricsFirstWriters(list) ==
    [i \in 1..Len(list) |-> MetricValues(list[i])]
        \o [i \in 1..Len(list) |-> DimensionValuesOf(list[i])]

\* the value the last of the writers holding key gives it
LastWritten(writers, key) ==
    LET holders == {i \in 1..Len(writers) : key \in DOMAIN writers[i]}
        top == CHOOSE i \in holders : \A j \in holders : j <= i
    IN  writers[top][key]

WrittenKeys(writers) == UNION {DOMAIN writers[i] : i \in 1..Len(writers)}

\* C2 as claimed: a key used by more than one of a property, a metric and a
\* dimension holds the value written last in the order: all properties, then
\* the metrics of all directives, then the dimensions of all directives.
C2_AllMetricsBeforeAllDimensions ==
    Encoded =>
        LET writers == <<em.properties.entries>> \o MetricsFirstWriters(em.metrics)
        IN  \A k \in WrittenKeys(writers) :
                Member(LastObject, k) = LastWritten(writers, k)

\* C2 as amended: a key used by more than one of a property, a metric and a
\* dimension holds the value written last in the order: all properties, then
\* directive by directive in creation order, the directive's metrics and then
\* its dimensions.  A dimension overrides a metric of its own or of an earlier
\* directive, a metric of a later directive overrides it, and both override a
\* property.
C2_PerDirectiveOrder ==
    Encoded =>
        LET writers == <<em.properties.entries>> \o PerDirectiveWriters(em.metrics)
        IN  \A k \in WrittenKeys(writers) :
                Member(LastObject, k) = LastWritten(writers, k)

\* a record was written in which one key is a property, a dimension of the
\* first directive and a metric of the second
C2_Witness ==
    /\ Encoded
    /\ Len(em.metrics) = 2
    /\ \E k \in DOMAIN em.properties.entries :
          /\ k \in DOMAIN em.metrics[1].Dimensions
          /\ k \in DOMAIN em.metrics[2].Metrics
          /\ k \notin DOMAIN em.metrics[2].Dimensions
          /\ Member(LastObject, k) = em.metrics[2].Metrics[k].Value

(***************************************************************************)
(* C3.  The encoded _aws.CloudWatchMetrics array has exactly one element   *)
(* per NewMetricDirective call made so far, in call order, element i       *)
(* carrying the namespace of the i-th call; no call removes, duplicates or *)
(* reorders a directive.                                                   *)
(***************************************************************************)
C3_CreationOrder ==
    /\ Len(em.metrics) = Len(ghostNs)
    /\ \A i \in 1..Len(ghostNs) : em.metrics[i].namespace = ghostNs[i]
    /\ Encoded =>
          LET cw == CloudWatchMetricsOf(LastObject)
          IN  /\ Len(cw) = Len(ghostNs)
              /\ \A i \in 1..Len(ghostNs) : cw[i].Namespace = ghostNs[i]

\* after an earlier publish, two directives of different namespaces were
\* created and a record was written
C3_Witness ==
    /\ Encoded
    /\ Len(SelectSeq(written, IsPayload)) = 2
    /\ Len(ghostNs) = 2
    /\ ghostNs[1] # ghostNs[2]
    /\ CloudWatchMetricsOf(LastObject)[2].Namespace = ghostNs[2]

(***************************************************************************)
(* C9.  The property bag maps each key to the value of the most recent     *)
(* write to that key, a WithProperty call or an additionalProperties       *)
(* entry, on an instance from either constructor or a zero-valued one;     *)
(* every WithProperty call, the caller's and each one of the               *)
(* additionalProperties loop of a publish, returns the instance it was     *)
(* called on, which is the caller's; and a key of the bag that collides    *)
(* with no metric, dimension or reserved key occurs exactly once in the    *)
(* encoded record, with that latest value.                                 *)
(***************************************************************************)
\* the addresses returned by the WithProperty calls of the most recent call
Returned == IF last.op \in {"WithProperty", "PublishToSink"} THEN last.returned ELSE <<>>

C9_LastWriteWins ==
    /\ em.properties.entries = ghostBag
    /\ \A i \in 1..Len(Returned) : Returned[i] = This
    /\ last.op = "WithProperty" => Len(Returned) = 1
    /\ Published => Len(Returned) = Cardinality(DOMAIN last.additional.entries)
    /\ Encoded =>
          \A k \in (DOMAIN ghostBag) \ (DirectiveKeys(em) \cup {KeyLogGroup, KeyLogStream, KeyAWS}) :
              /\ Occurrences(LastObject, k) = 1
              /\ Member(LastObject, k) = ghostBag[k]

\* a key set by WithProperty and written again by the additionalProperties of
\* a publish, a map of two keys, is in the record once, with the
\* additionalProperties value; the two WithProperty calls of the loop returned
\* the caller's instance
C9_Witness ==
    /\ Encoded
    /\ Cardinality(DOMAIN last.additional.entries) = 2
    /\ Returned = <<This, This>>
    /\ \E k \in DOMAIN last.additional.entries :
          /\ k \in DOMAIN last.before.properties.entries
          /\ last.before.properties.entries[k] = Str(<<"v2">>)
          /\ last.additional.entries[k] # Str(<<"v2">>)
          /\ k \notin DirectiveKeys(em)
          /\ Occurrences(LastObject, k) = 1
          /\ Member(LastObject, k) = last.additional.entries[k]

(***************************************************************************)
(* C10.  What a publish leaves of the instance, and what two publishes     *)
(* with no mutation in between write.                                      *)
(***************************************************************************)
\* the payload of the publish before the most recent one
PreviousPayload ==
    LET before == SelectSeq(SubSeq(written, 1, last.from), IsPayload)
    IN  before[Len(before)]

\* the most recent call and the call before it were publishes, and the most
\* recent one added no property
PublishedTwice ==
    /\ Published
    /\ last.afterPublish
    /\ em.properties = last.before.properties

\* a record without its Timestamp
WithoutTimestamp(object) ==
    [i \in 1..Len(object) |->
        IF object[i].key = KeyAWS
        THEN [key |-> KeyAWS, value |-> object[i].value.val.CloudWatchMetrics]
        ELSE object[i]]

Unordered(elem) ==
    [Namespace  |-> elem.Namespace,
     Dimensions |-> Range(elem.Dimensions.items),
     Metrics    |-> Range(elem.Metrics.items)]

\* every array of the record has one reading only
Determined(object) ==
    \A elem \in Range(CloudWatchMetricsOf(object)) :
        /\ Cardinality(Readings(elem.Dimensions)) = 1
        /\ Cardinality(Readings(elem.Metrics)) = 1

\* a record without its Timestamp and without the order of the entries of
\* each Metrics and Dimensions array
WithoutTimestampAndOrder(object) ==
    [i \in 1..Len(object) |->
        IF object[i].key = KeyAWS
        THEN [key |-> KeyAWS,
              value |-> LET cw == object[i].value.val.CloudWatchMetrics
                        IN  [j \in 1..Len(cw) |-> Unordered(cw[j])]]
        ELSE object[i]]

\* a publish leaves the directives as they were and adds exactly the
\* additionalProperties to the bag, whether or not the encoding succeeded
PublishFrame ==
    Published =>
        /\ em.metrics = last.before.metrics
        /\ em.properties =
              IF DOMAIN last.additional.entries = {}
              THEN last.before.properties
              ELSE MapOf(Merge(last.before.properties.entries, last.additional.entries))

\* the record written is an encoding of the instance as it is at the publish
PublishReadsCurrentState ==
    Encoded => \E orders \in DirectiveOrders(em.metrics) :
                  MarshalJSON(em, envMap, now, orders).object = LastObject

\* C10 as claimed: a publish changes nothing of the instance but the bag,
\* which gains exactly the additionalProperties; and two publishes with no
\* mutation in between write records that differ at most in Timestamp.
C10_DifferOnlyInTimestamp ==
    /\ PublishFrame
    /\ PublishReadsCurrentState
    /\ PublishedTwice =>
          /\ PreviousPayload.data.kind = LastPayloads[1].data.kind
          /\ Encoded =>
                /\ WithoutTimestamp(PreviousPayload.data.object) = WithoutTimestamp(LastObject)
                /\ Determined(LastObject)

\* C10 as amended: a publish changes nothing of the instance but the bag,
\* which gains exactly the additionalProperties; two publishes with no
\* mutation in between write records that differ at most in Timestamp and in
\* the order of the entries within a directive's Metrics and Dimensions
\* arrays; a record is an encoding of the instance as it is at the publish.
C10_DifferInTimestampAndOrder ==
    /\ PublishFrame
    /\ PublishReadsCurrentState
    /\ PublishedTwice =>
          /\ PreviousPayload.data.kind = LastPayloads[1].data.kind
          /\ Encoded =>
                WithoutTimestampAndOrder(PreviousPayload.data.object)
                    = WithoutTimestampAndOrder(LastObject)

\* two publishes in a row wrote records of different Timestamp whose
\* Dimensions groups come in different orders
C10_Witness ==
    /\ PublishedTwice
    /\ Encoded
    /\ Member(PreviousPayload.data.object, KeyAWS).val.Timestamp
          # Member(LastObject, KeyAWS).val.Timestamp
    /\ WithoutTimestamp(PreviousPayload.data.object) # WithoutTimestamp(LastObject)
    /\ Len(em.metrics) > 0

(***************************************************************************)
(* C4.  Lines of a stream.  The text of one write call holds no line       *)
(* break: encoding/json escapes the line breaks of string values and       *)
(* writes none between members, and the formats of the messages hold none. *)
(* A write is therefore one token, and a line break would be a token of    *)
(* its own.                                                                *)
(***************************************************************************)
Newline == [kind |-> "newline"]

\* what the stream holds: the text of the write calls it accepted, in order
StreamTokens(stream) ==
    LET accepted == SelectSeq(written, LAMBDA c : c.stream = stream /\ c.ok)
    IN  [i \in 1..Len(accepted) |-> accepted[i].data]

\* the lines of a text: cut at the line breaks, a final line break ending
\* the last line
Lines(tokens) ==
    LET parts == Split(tokens, Newline)
    IN  IF parts[Len(parts)] = <<>> THEN SubSeq(parts, 1, Len(parts) - 1) ELSE parts

IsPayloadToken(t) == t.kind \in {"record", "encode_error"}

\* C4 as claimed: after k publishes to one sink the sink holds k lines, each
\* holding exactly one record, so that the records of two publishes are
\* never on the same line.
C4_OneRecordPerLine ==
    \A s \in Streams :
        LET lines == Lines(StreamTokens(s))
            k == Len(SelectSeq(StreamTokens(s), IsPayloadToken))
        IN  k > 0 =>
              /\ Len(lines) = k
              /\ \A i \in 1..Len(lines) : Len(SelectSeq(lines[i], IsPayloadToken)) = 1

(***************************************************************************)
(* C5.  PublishToSink warns for a directive exactly when it has more than  *)
(* 9 dimensions at publish time, once per such directive and before the    *)
(* sink write; it goes on to make the sink write, and the record written   *)
(* is the encoding of the instance, every dimension of an oversized        *)
(* directive being a top-level key and a Dimensions group of its own       *)
(* (the entries of an array are the same in each of its readings).         *)
(***************************************************************************)
C5_WarnAndProceed ==
    Published =>
        LET warnings == SelectSeq(LastWrites, LAMBDA c : c.data.kind = "warning")
            big == {i \in 1..Len(em.metrics) :
                       Cardinality(DOMAIN em.metrics[i].Dimensions) > MaxDimensions}
            bigSeq == SelectSeq(em.metrics,
                                LAMBDA d : Cardinality(DOMAIN d.Dimensions) > MaxDimensions)
        IN  /\ em.metrics = last.before.metrics
            /\ Len(warnings) = Len(bigSeq)
            /\ \A i \in 1..Len(warnings) :
                  warnings[i].data.count = Cardinality(DOMAIN bigSeq[i].Dimensions)
            /\ Len(LastPayloads) = 1
            /\ \A i, j \in 1..Len(LastWrites) :
                  (LastWrites[i].data.kind = "warning" /\ IsPayload(LastWrites[j])) => i < j
            /\ PublishReadsCurrentState
            /\ Encoded =>
                  \A i \in big : \A k \in DOMAIN em.metrics[i].Dimensions :
                      /\ HasKey(LastObject, k)
                      /\ <<k>> \in Range(CloudWatchMetricsOf(LastObject)[i].Dimensions.items)

\* an instance with a directive of exactly 9 dimensions and one of more was
\* published: one warning, then the record
C5_Witness ==
    /\ Encoded
    /\ \E i, j \in 1..Len(em.metrics) :
          /\ Cardinality(DOMAIN em.metrics[i].Dimensions) = MaxDimensions
          /\ Cardinality(DOMAIN em.metrics[j].Dimensions) > MaxDimensions
    /\ Len(SelectSeq(LastWrites, LAMBDA c : c.data.kind = "warning")) = 1
    /\ LastWrites[1].data.kind = "warning"

(***************************************************************************)
(* C6.  A publish makes exactly one write to its sink; when the encoding   *)
(* fails that write is the error text and no part of a record, and when it *)
(* succeeds it is the record.                                              *)
(***************************************************************************)
\* json.Marshal fails on the instance
EncodingFails(e) ==
    LET writers == <<e.properties.entries>> \o PerDirectiveWriters(e.metrics)
    IN  \E k \in WrittenKeys(writers) : LastWritten(writers, k).kind = "chan"

\* C6 as claimed: exactly one write to the sink per publish, the error text
\* when the encoding fails and the record when it succeeds
C6_OneWriteToTheSink ==
    Published =>
        LET toSink == SelectSeq(LastWrites, LAMBDA c : c.stream = last.sink)
        IN  /\ Len(toSink) = 1
            /\ toSink[1].data.kind = IF EncodingFails(em) THEN "encode_error" ELSE "record"

(***************************************************************************)
(* C7.  As claimed: the report of a write failure and the dimension        *)
(* warning go to a stream other than the sink the record goes to, for      *)
(* every sink, standard output included; the failed write is not retried.  *)
(***************************************************************************)
C7_DiagnosticsOffTheSink ==
    Published =>
        /\ \A i \in 1..Len(LastWrites) :
              IsDiagnostic(LastWrites[i]) => LastWrites[i].stream # last.sink
        /\ Len(LastPayloads) = 1

(***************************************************************************)
(* C8.  In every encoded record the keys log_group_name and log_steam_name *)
(* are present and hold the values the variables AWS_LAMBDA_LOG_GROUP_NAME *)
(* and AWS_LAMBDA_LOG_STREAM_NAME had at process start, the empty string   *)
(* exactly when the variable was unset.                                    *)
(***************************************************************************)
\* the entries of the environment that set the variable
Setting(envVars, name) ==
    SelectSeq(envVars, LAMBDA e : Len(e) >= 2 /\ e[1] = name /\ e[2] = "=")

IsSet(envVars, name) == Setting(envVars, name) # <<>>

\* the value of the variable: what follows the first "=" of its entry
Getenv(envVars, name) ==
    IF IsSet(envVars, name)
    THEN LET e == Setting(envVars, name)[1] IN SubSeq(e, 3, Len(e))
    ELSE <<>>

\* C8 as claimed: both reserved keys are in every record and hold the value
\* of their variable, the empty string exactly when it is unset
C8_ReservedKeysHoldEnvironment ==
    Encoded =>
        \A p \in {<<KeyLogGroup, EnvLogGroup>>, <<KeyLogStream, EnvLogStream>>} :
            /\ Occurrences(LastObject, p[1]) = 1
            /\ Member(LastObject, p[1]) = Str(Getenv(environ, p[2]))
            /\ (Member(LastObject, p[1]) = Str(<<>>)) <=> ~IsSet(environ, p[2])

====
